---------------------------- MODULE Spec2Model ----------------------------
(***************************************************************************)
(* Model of the read-only hadith REST API (src/main.py).                   *)
(*                                                                         *)
(* One request is in flight at a time; requests share no mutable state.    *)
(* Text that the code parses (query-string values) is a sequence of        *)
(* one-character strings, so that split / strip / int() / float() are      *)
(* computed as the code computes them.                                     *)
(***************************************************************************)
EXTENDS Integers, Sequences, FiniteSets, TLC

VARIABLES
    store,      \* the Hadith table, in the store's natural row order
    pc,         \* position of the request being handled
    req,        \* the request: route, path arguments, query arguments
    parts,      \* api_hadiths_by_urns: trimmed non-empty tokens
    urns,       \* api_hadiths_by_urns: deduplicated identifiers
    invalid,    \* api_hadiths_by_urns: tokens that int() rejected
    seen,       \* api_hadiths_by_urns: identifiers met so far
    idx,        \* api_hadiths_by_urns: position of the running loop
    by_eng,     \* api_hadiths_by_urns: rows by English URN
    by_ar,      \* api_hadiths_by_urns: rows by Arabic URN
    data,       \* api_hadiths_by_urns: serialized rows found
    missing,    \* api_hadiths_by_urns: identifiers not found
    results,    \* rows returned by the statement the request executed
    queries,    \* number of statements the request has sent to the store
    resp        \* the response: [code, body]

vars == <<store, pc, req, parts, urns, invalid, seen, idx, by_eng, by_ar, data,
          missing, results, queries, resp>>

-----------------------------------------------------------------------------
(* Bounds of the model *)

\* tokens per enumerated 'urns' value
MaxTokens == 3
\* rows of the large table
BigRows == 103

-----------------------------------------------------------------------------
(* Program constants *)

MAX_URNS == 100
DefaultLimit == 50
DefaultPage == 1
MaxPerPage == 100

-----------------------------------------------------------------------------
(* Text helpers *)

Digits == <<"0", "1", "2", "3", "4", "5", "6", "7", "8", "9">>

IsDigit(c) == \E i \in 1..10 : Digits[i] = c

DigitVal(c) == (CHOOSE i \in 1..10 : Digits[i] = c) - 1

\* str(n) for n >= 0
RECURSIVE Str(_)
Str(n) == IF n < 10 THEN <<Digits[n + 1]>>
          ELSE Append(Str(n \div 10), Digits[(n % 10) + 1])

IsSpace(c) == c = " "

\* str.strip()
RECURSIVE LStrip(_)
LStrip(s) == IF s # <<>> /\ IsSpace(Head(s)) THEN LStrip(Tail(s)) ELSE s

RECURSIVE RStrip(_)
RStrip(s) == IF s # <<>> /\ IsSpace(s[Len(s)])
             THEN RStrip(SubSeq(s, 1, Len(s) - 1)) ELSE s

Strip(s) == RStrip(LStrip(s))

\* str.split(","): one more field than there are commas.  The text is halved
\* and the fields of the halves are merged, the field cut by the halving joined.
RECURSIVE Split(_)
Split(s) ==
    IF s = <<>> THEN << <<>> >>
    ELSE IF Len(s) = 1 THEN (IF s[1] = "," THEN << <<>>, <<>> >> ELSE <<s>>)
    ELSE LET m == Len(s) \div 2
             a == Split(SubSeq(s, 1, m))
             b == Split(SubSeq(s, m + 1, Len(s)))
         IN  SubSeq(a, 1, Len(a) - 1) \o << a[Len(a)] \o b[1] >> \o Tail(b)

\* sep.join(items)
RECURSIVE Join(_, _)
Join(items, sep) ==
    IF items = <<>> THEN <<>>
    ELSE IF Len(items) = 1 THEN items[1]
    ELSE LET m == Len(items) \div 2
         IN  Join(SubSeq(items, 1, m), sep) \o sep
                \o Join(SubSeq(items, m + 1, Len(items)), sep)

\* digits, single underscores allowed between digits
RECURSIVE IsDigitRun(_)
IsDigitRun(s) ==
    /\ s # <<>>
    /\ IsDigit(Head(s))
    /\ \/ Len(s) = 1
       \/ /\ s[2] = "_"
          /\ IsDigitRun(SubSeq(s, 3, Len(s)))
       \/ /\ s[2] # "_"
          /\ IsDigitRun(Tail(s))

RECURSIVE DigitRunVal(_, _)
DigitRunVal(s, acc) ==
    IF s = <<>> THEN acc
    ELSE IF Head(s) = "_" THEN DigitRunVal(Tail(s), acc)
    ELSE DigitRunVal(Tail(s), 10 * acc + DigitVal(Head(s)))

HasSign(s) == s # <<>> /\ Head(s) \in {"+", "-"}

Unsigned(s) == IF HasSign(s) THEN Tail(s) ELSE s

\* int(s) succeeds
IntOk(s) == IsDigitRun(Unsigned(Strip(s)))

\* int(s), when it succeeds
IntVal(s) ==
    LET t == Strip(s)
        m == DigitRunVal(Unsigned(t), 0)
    IN  IF HasSign(t) /\ Head(t) = "-" THEN 0 - m ELSE m


\* text before and after the first "."
RECURSIVE BeforeDot(_)
BeforeDot(s) == IF s = <<>> \/ Head(s) = "." THEN <<>>
                ELSE <<Head(s)>> \o BeforeDot(Tail(s))

AfterDot(s) == SubSeq(s, Len(BeforeDot(s)) + 2, Len(s))

HasDot(s) == \E i \in 1..Len(s) : s[i] = "."

\* float(s) succeeds.  Decimal literals only: the inputs considered hold no
\* exponent, "inf" or "nan".
FloatOk(s) ==
    LET t  == Unsigned(Strip(s))
        ip == BeforeDot(t)
        fp == AfterDot(t)
    IN  IF ~HasDot(t) THEN IsDigitRun(t)
        ELSE /\ ip = <<>> \/ IsDigitRun(ip)
             /\ fp = <<>> \/ IsDigitRun(fp)
             /\ ip # <<>> \/ fp # <<>>

RECURSIVE DropTrailingZeros(_)
DropTrailingZeros(s) ==
    IF s # <<>> /\ s[Len(s)] = "0"
    THEN DropTrailingZeros(SubSeq(s, 1, Len(s) - 1)) ELSE s

\* float(s), when it succeeds: <<m, e>> stands for m / 10^e, e minimal
FloatVal(s) ==
    LET t  == Strip(s)
        u  == Unsigned(t)
        fp == DropTrailingZeros(AfterDot(u))
        m  == DigitRunVal(BeforeDot(u) \o fp, 0)
        e  == Cardinality({i \in 1..Len(fp) : fp[i] # "_"})
    IN  <<IF HasSign(t) /\ Head(t) = "-" THEN 0 - m ELSE m, e>>

-----------------------------------------------------------------------------
(* The store: the Hadith table *)

Row(id, collection, bookNumber, babID, hadithNumber, englishURN, arabicURN) ==
    [id |-> id, collection |-> collection, bookNumber |-> bookNumber,
     babID |-> babID, hadithNumber |-> hadithNumber,
     englishURN |-> englishURN, arabicURN |-> arabicURN]

\* URN 2 exists only as an Arabic URN, URN 1 in both namespaces
SmallTable ==
    << Row(1, "bukhari", "1", <<1, 0>>,  "1", 7, 2),
       Row(2, "bukhari", "1", <<15, 1>>, "2", 1, 9),
       Row(3, "muslim",  "2", <<1, 0>>,  "1", 5, 1) >>

\* URNs repeated inside one namespace, URN 2 in neither
DupTable ==
    << Row(1, "riyadussalihin", "1", <<1, 0>>,  "1", 5, 1),
       Row(2, "riyadussalihin", "1", <<1, 0>>,  "2", 5, 1),
       Row(3, "bukhari",        "2", <<15, 1>>, "2", 3, 10),
       Row(4, "riyadussalihin", "2", <<2, 0>>,  "2", 4, 10) >>

\* more rows than one page can hold, stored in descending English URN
BigTable ==
    [i \in 1..BigRows |->
        Row(i, "bukhari", IF i % 2 = 1 THEN "1" ELSE "2",
            IF i % 3 = 0 THEN <<15, 1>> ELSE <<1, 0>>, "1", 1000 - i, i)]

Tables == {SmallTable, DupTable, BigTable}

\* Hadith.serialize(): the public fields, the surrogate id left out
Serialize(h) ==
    [collection |-> h.collection, bookNumber |-> h.bookNumber,
     chapterId |-> h.babID, hadithNumber |-> h.hadithNumber,
     urn |-> [en |-> h.englishURN, ar |-> h.arabicURN]]

\* [x.serialize() for x in items]
SerializeAll(items) == [i \in 1..Len(items) |-> Serialize(items[i])]

-----------------------------------------------------------------------------
(* Requests and responses *)

\* request.args.getlist(key): the values given for key, in order
GetList(args, key) == IF key \in DOMAIN args THEN args[key] ELSE <<>>

Has(args, key) == GetList(args, key) # <<>>

\* request.args.get(key): the first value (read only when Has(args, key))
Get(args, key) == GetList(args, key)[1]

NoArgs == [urns |-> <<>>]

Idle == [route |-> "none", path |-> <<>>, args |-> NoArgs]

NoResp == [code |-> 0, body |-> <<>>]

\* jsonify_http_error: details is the text prefix followed by text
ErrorResponse(code, prefix, text) ==
    [code |-> code,
     body |-> [error |-> [details |-> [prefix |-> prefix, text |-> text],
                          code |-> code]]]

\* abort(code, description)
Abort(code, prefix, text) ==
    /\ resp' = ErrorResponse(code, prefix, text)
    /\ pc' = "done"

\* jsonify(result)
Ok(body) ==
    /\ resp' = [code |-> 200, body |-> body]
    /\ pc' = "done"

-----------------------------------------------------------------------------
(* GET /v1/hadiths/urns : api_hadiths_by_urns *)

Comma == <<",">>

\* the tokens the enumerated 'urns' values are made of
Tokens ==
    { <<"1">>, <<"2">>, <<"0", "1">>, <<" ", "2", " ">>, <<>>, <<"a">>,
      <<"1", ".", "5">> }

TokenLists == UNION {[1..n -> Tokens] : n \in 1..MaxTokens}

\* "a,a+1,...,b"
Range(a, b) == [i \in 1..(b - a + 1) |-> Str(a + i - 1)]

\* values around the MAX_URNS limit
LongValues ==
    { Join(Range(1, MAX_URNS), Comma),
      Join(Range(1, MAX_URNS + 1), Comma),
      Join(Range(1, MAX_URNS) \o Range(1, 3), Comma),
      Join(Range(1, MAX_URNS + 1) \o << <<"a">> >>, Comma) }

UrnsValues == {Join(ts, Comma) : ts \in TokenLists} \cup LongValues

\* values sent when the parameter is repeated
RepeatedValues == { <<"1">>, <<"2">>, <<"a">> }

UrnsArgs ==
    {<<>>} \cup {<<v>> : v \in UrnsValues}
           \cup {<<v, w>> : v \in RepeatedValues, w \in RepeatedValues}

\* variant of NotExactlyOnce: only an absent parameter is refused
NeverGiven(args) == Len(GetList(args, "urns")) < 1

\* line 164: the parameter was not given exactly once
NotExactlyOnce(args) == Len(GetList(args, "urns")) # 1

\* line 170: request.args.get("urns", "").strip()
UrnsParam(args) ==
    Strip(IF Has(args, "urns") THEN Get(args, "urns") ELSE <<>>)

\* line 175: [p.strip() for p in urns_param.split(",") if p.strip()]
StripNonEmpty(fields) ==
    SelectSeq([i \in 1..Len(fields) |-> Strip(fields[i])],
              LAMBDA p : p # <<>>)

Parts(urns_param) == StripNonEmpty(Split(urns_param))

\* variant of AddInvalid: only the first rejected token is kept
AddInvalidOnce(inv, p) == IF inv = <<>> THEN <<p>> ELSE inv

\* lines 186-188: a token int() rejects is appended to invalid
AddInvalid(inv, p) == Append(inv, p)

\* variant of AddUrn: a new identifier is put in front
AddUrnFront(us, sn, u) == IF u \notin sn THEN <<u>> \o us ELSE us

\* lines 189-191: an identifier not seen before is appended to urns
AddUrn(us, sn, u) == IF u \notin sn THEN Append(us, u) ELSE us

\* variant of TooMany: MAX_URNS identifiers are refused too
TooManyFromMax(us) == Len(us) >= MAX_URNS

\* line 197: len(urns) > MAX_URNS
TooMany(us) == Len(us) > MAX_URNS

\* lines 200-206: rows whose English or Arabic URN is among urns
SelectRows(table, us) ==
    LET wanted == {us[i] : i \in 1..Len(us)}
    IN  SelectSeq(table, LAMBDA h : h.englishURN \in wanted
                                    \/ h.arabicURN \in wanted)

\* line 208: {h.englishURN: h for h in results}, the last row winning
ByEng(rs) ==
    [k \in {rs[i].englishURN : i \in 1..Len(rs)} |->
        rs[CHOOSE i \in 1..Len(rs) :
              /\ rs[i].englishURN = k
              /\ \A j \in (i + 1)..Len(rs) : rs[j].englishURN # k]]

\* line 209: {h.arabicURN: h for h in results}
ByAr(rs) ==
    [k \in {rs[i].arabicURN : i \in 1..Len(rs)} |->
        rs[CHOOSE i \in 1..Len(rs) :
              /\ rs[i].arabicURN = k
              /\ \A j \in (i + 1)..Len(rs) : rs[j].arabicURN # k]]

\* variant of Found: only the English index is asked
FoundEnglishOnly(eng, ar, u) == u \in DOMAIN eng

\* line 214: by_eng.get(u) or by_ar.get(u) is not None
Found(eng, ar, u) == u \in DOMAIN eng \/ u \in DOMAIN ar

\* line 214: by_eng.get(u) or by_ar.get(u)
Lookup(eng, ar, u) == IF u \in DOMAIN eng THEN eng[u] ELSE ar[u]

OnceMessage ==
    "Query parameter 'urns' must be provided exactly once. Example: ?urns=305,306"

RequiredMessage == "Query parameter 'urns' is required. Example: ?urns=305,306"

\* the locals of api_hadiths_by_urns other than results
locals == <<parts, urns, invalid, seen, idx, by_eng, by_ar, data, missing>>

NoLocals ==
    /\ parts' = <<>>
    /\ urns' = <<>>
    /\ invalid' = <<>>
    /\ seen' = {}
    /\ idx' = 0
    /\ by_eng' = <<>>
    /\ by_ar' = <<>>
    /\ data' = <<>>
    /\ missing' = <<>>

\* the worker takes request r (when it is idle)
Start(r) ==
    /\ req' = r
    /\ NoLocals
    /\ UNCHANGED store

\* a GET /v1/hadiths/urns request arrives
UrnsRequest ==
    /\ pc = "idle"
    /\ \E a \in UrnsArgs :
        /\ Start([route |-> "hadiths_by_urns", path |-> <<>>,
                  args |-> [urns |-> a]])
        /\ results' = <<>>
        /\ queries' = 0
        /\ resp' = NoResp
        /\ pc' = "once"

\* lines 164-168
CheckOnce ==
    /\ pc = "once"
    /\ IF NotExactlyOnce(req.args)
       THEN Abort(400, OnceMessage, <<>>)
       ELSE /\ pc' = "required"
            /\ UNCHANGED resp
    /\ UNCHANGED <<store, req, locals, results, queries>>

\* lines 170-181
CheckRequired ==
    /\ pc = "required"
    /\ IF UrnsParam(req.args) = <<>> \/ Parts(UrnsParam(req.args)) = <<>>
       THEN /\ Abort(400, RequiredMessage, <<>>)
            /\ UNCHANGED <<parts, idx>>
       ELSE /\ parts' = Parts(UrnsParam(req.args))
            /\ idx' = 1
            /\ pc' = "parse"
            /\ UNCHANGED resp
    /\ UNCHANGED <<store, req, urns, invalid, seen, by_eng, by_ar, data,
                   missing, results, queries>>

\* lines 183-191: one iteration of the loop over parts
ParseToken ==
    /\ pc = "parse"
    /\ idx <= Len(parts)
    /\ LET p == parts[idx]
       IN  IF ~IntOk(p)
           THEN /\ invalid' = AddInvalid(invalid, p)
                /\ UNCHANGED <<urns, seen>>
           ELSE /\ urns' = AddUrn(urns, seen, IntVal(p))
                /\ seen' = seen \cup {IntVal(p)}
                /\ UNCHANGED invalid
    /\ idx' = idx + 1
    /\ UNCHANGED <<store, pc, req, parts, by_eng, by_ar, data, missing,
                   results, queries, resp>>

\* variant of CheckParsed: the count is checked before the rejected tokens
CheckParsedCountFirst ==
    /\ pc = "parse"
    /\ idx > Len(parts)
    /\ IF TooMany(urns)
       THEN Abort(400, "Too many URNs (max ", Str(MAX_URNS) \o <<")", ".">>)
       ELSE IF invalid # <<>>
       THEN Abort(400, "Invalid URN(s): ", Join(invalid, <<",", " ">>))
       ELSE /\ pc' = "query"
            /\ UNCHANGED resp
    /\ UNCHANGED <<store, req, locals, results, queries>>

\* lines 193-198: the loop over parts has ended
CheckParsed ==
    /\ pc = "parse"
    /\ idx > Len(parts)
    /\ IF invalid # <<>>
       THEN Abort(400, "Invalid URN(s): ", Join(invalid, <<",", " ">>))
       ELSE IF TooMany(urns)
       THEN Abort(400, "Too many URNs (max ", Str(MAX_URNS) \o <<")", ".">>)
       ELSE /\ pc' = "query"
            /\ UNCHANGED resp
    /\ UNCHANGED <<store, req, locals, results, queries>>

\* lines 200-212: the bulk statement, the two indices, the empty lists
QueryUrns ==
    /\ pc = "query"
    /\ LET rs == SelectRows(store, urns)
       IN  /\ results' = rs
           /\ by_eng' = ByEng(rs)
           /\ by_ar' = ByAr(rs)
    /\ queries' = queries + 1
    /\ data' = <<>>
    /\ missing' = <<>>
    /\ idx' = 1
    /\ pc' = "collect"
    /\ UNCHANGED <<store, req, parts, urns, invalid, seen, resp>>

\* lines 213-218: one iteration of the loop over urns
CollectUrn ==
    /\ pc = "collect"
    /\ idx <= Len(urns)
    /\ LET u == urns[idx]
       IN  IF ~Found(by_eng, by_ar, u)
           THEN /\ missing' = Append(missing, u)
                /\ UNCHANGED data
           ELSE /\ data' = Append(data, Serialize(Lookup(by_eng, by_ar, u)))
                /\ UNCHANGED missing
    /\ idx' = idx + 1
    /\ UNCHANGED <<store, pc, req, parts, urns, invalid, seen, by_eng, by_ar,
                   results, queries, resp>>

\* line 220: the loop over urns has ended
RespondUrns ==
    /\ pc = "collect"
    /\ idx > Len(urns)
    /\ Ok([count |-> Len(data), missing |-> missing, data |-> data])
    /\ UNCHANGED <<store, req, locals, results, queries>>

-----------------------------------------------------------------------------
(* paginate_results and the routes it wraps *)

Min(a, b) == IF a < b THEN a ELSE b

\* the value of "null" in a JSON body
Null == "null"

\* int(request.args.get(key, default)) succeeds
IntArgOk(args, key) == ~Has(args, key) \/ IntOk(Get(args, key))

\* int(request.args.get(key, default))
IntArg(args, key, default) ==
    IF Has(args, key) THEN IntVal(Get(args, key)) ELSE default

\* variant of PerPage: no maximum
PerPageUnclamped(limit) == limit

\* db.paginate(max_per_page=100): per_page = min(per_page, max_per_page)
PerPage(limit) == Min(limit, MaxPerPage)

\* OFFSET (page - 1) * per_page LIMIT per_page
Window(rows, page, per_page) ==
    SubSeq(rows, (page - 1) * per_page + 1, Min(page * per_page, Len(rows)))

\* number of pages of total rows
Pages(total, per_page) == (total + per_page - 1) \div per_page

InternalError == ErrorResponse(500, "Internal Server Error", <<>>)

NotFound == ErrorResponse(404, "Not Found", <<>>)

\* lines 30-38: db.paginate(stmt, page, per_page, max_per_page=100) on the
\* rows the statement selects, and the body built from it
Paginate(rows, page, limit) ==
    LET per_page == PerPage(limit)
        items    == Window(rows, page, per_page)
        total    == Len(rows)
    IN  IF page < 1 \/ per_page < 1 THEN NotFound
        ELSE IF items = <<>> /\ page # 1 THEN NotFound
        ELSE [code |-> 200,
              body |-> [data     |-> SerializeAll(items),
                        total    |-> total,
                        limit    |-> per_page,
                        previous |-> IF page > 1 THEN page - 1 ELSE Null,
                        next     |-> IF page < Pages(total, per_page)
                                     THEN page + 1 ELSE Null]]

\* statements db.paginate sends: none when page or per_page is rejected, else
\* the window, and the count when the window stands
PaginateQueries(rows, page, limit) ==
    IF page < 1 \/ PerPage(limit) < 1 THEN 0
    ELSE IF Window(rows, page, PerPage(limit)) = <<>> /\ page # 1 THEN 1
    ELSE 2

\* merge of two ordered runs, a's rows before b's rows of equal URN: the
\* middle row of a splits both runs
RECURSIVE Merge(_, _)
Merge(a, b) ==
    IF a = <<>> THEN b
    ELSE IF b = <<>> THEN a
    ELSE LET m == (Len(a) + 1) \div 2
             k == Cardinality({j \in 1..Len(b) :
                                  b[j].englishURN < a[m].englishURN})
         IN  Merge(SubSeq(a, 1, m - 1), SubSeq(b, 1, k)) \o <<a[m]>>
                \o Merge(SubSeq(a, m + 1, Len(a)), SubSeq(b, k + 1, Len(b)))

\* ORDER BY englishURN (rows of equal URN keep the table's order)
RECURSIVE OrderByEnglishURN(_)
OrderByEnglishURN(rows) ==
    IF Len(rows) <= 1 THEN rows
    ELSE LET m == Len(rows) \div 2
         IN  Merge(OrderByEnglishURN(SubSeq(rows, 1, m)),
                   OrderByEnglishURN(SubSeq(rows, m + 1, Len(rows))))

\* "if value:" on a query argument: given and not empty
Truthy(args, key, empty) == Has(args, key) /\ Get(args, key) # empty

\* line 146: float(chapter_id) raises
HadithsRaises(args) ==
    Truthy(args, "chapterId", <<>>) /\ ~FloatOk(Get(args, "chapterId"))

\* variant of HadithsWhere: the predicates are alternatives
HadithsWhereAny(h, args) ==
    \/ ~\E key \in {"collection", "bookNumber", "chapterId", "hadithNumber"} :
          Truthy(args, key, IF key = "chapterId" THEN <<>> ELSE "")
    \/ Truthy(args, "collection", "") /\ h.collection = Get(args, "collection")
    \/ Truthy(args, "bookNumber", "") /\ h.bookNumber = Get(args, "bookNumber")
    \/ /\ Truthy(args, "chapterId", <<>>)
       /\ h.babID = FloatVal(Get(args, "chapterId"))
    \/ /\ Truthy(args, "hadithNumber", "")
       /\ h.hadithNumber = Get(args, "hadithNumber")

\* lines 136-150: the predicates of api_hadiths, one per argument given
HadithsWhere(h, args) ==
    /\ Truthy(args, "collection", "") => h.collection = Get(args, "collection")
    /\ Truthy(args, "bookNumber", "") => h.bookNumber = Get(args, "bookNumber")
    /\ Truthy(args, "chapterId", <<>>)
          => h.babID = FloatVal(Get(args, "chapterId"))
    /\ Truthy(args, "hadithNumber", "")
          => h.hadithNumber = Get(args, "hadithNumber")

\* lines 132-153: the rows the statement of api_hadiths selects
HadithsStmt(table, args) ==
    OrderByEnglishURN(SelectSeq(table, LAMBDA h : HadithsWhere(h, args)))

\* lines 92-97: the rows the statement of api_collection_book_hadiths selects
BookHadithsStmt(table, path) ==
    OrderByEnglishURN(
        SelectSeq(table, LAMBDA h : /\ h.collection = path.collection_name
                                    /\ h.bookNumber = path.bookNumber))

\* lines 25-38: the decorated function, raises standing for a statement
\* function f that raised and rows for the rows its statement selects
PaginateResults(args, raises, rows) ==
    IF ~IntArgOk(args, "limit") \/ ~IntArgOk(args, "page") \/ raises
    THEN InternalError
    ELSE Paginate(rows, IntArg(args, "page", DefaultPage),
                  IntArg(args, "limit", DefaultLimit))

PaginateResultsQueries(args, raises, rows) ==
    IF ~IntArgOk(args, "limit") \/ ~IntArgOk(args, "page") \/ raises
    THEN 0
    ELSE PaginateQueries(rows, IntArg(args, "page", DefaultPage),
                         IntArg(args, "limit", DefaultLimit))

Text2   == <<"2">>
Text0   == <<"0">>
TextA   == <<"a">>
Text101 == <<"1", "0", "1">>
Text1p0 == <<"1", ".", "0">>
Text1p5 == <<"1", ".", "5">>

\* absent, or given once with one of vals
Optional(vals) == {<<>>} \cup {<<v>> : v \in vals}

LimitArgs == Optional({Text2, Text101, Text0, TextA})
PageArgs  == Optional({Text2, Text0, TextA})

HadithsArgs ==
    [collection   : Optional({"", "bukhari", "muslim"}),
     bookNumber   : Optional({"1"}),
     chapterId    : Optional({<<>>, Text1p0, Text1p5, TextA}),
     hadithNumber : Optional({"2"}),
     limit        : LimitArgs,
     page         : PageArgs]

Collections == {"bukhari", "muslim", "riyadussalihin"}

\* GET /v1/hadiths
ListHadiths ==
    /\ pc = "idle"
    /\ \E a \in HadithsArgs :
        LET raises == HadithsRaises(a)
            rows   == IF raises THEN <<>> ELSE HadithsStmt(store, a)
        IN  /\ Start([route |-> "hadiths", path |-> <<>>, args |-> a])
            /\ results' = <<>>
            /\ resp' = PaginateResults(a, raises, rows)
            /\ queries' = PaginateResultsQueries(a, raises, rows)
            /\ pc' = "done"

\* GET /v1/collections/<collection_name>/books/<bookNumber>/hadiths
ListBookHadiths ==
    /\ pc = "idle"
    /\ \E c \in Collections, b \in {"1", "2"},
          a \in [limit : LimitArgs, page : PageArgs] :
        LET path == [collection_name |-> c, bookNumber |-> b]
            rows == BookHadithsStmt(store, path)
        IN  /\ Start([route |-> "collection_book_hadiths", path |-> path,
                      args |-> a])
            /\ results' = <<>>
            /\ resp' = PaginateResults(a, FALSE, rows)
            /\ queries' = PaginateResultsQueries(a, FALSE, rows)
            /\ pc' = "done"

-----------------------------------------------------------------------------
(* single_resource and the routes it wraps *)

\* variant of FirstOr404: no row gives an empty 200 body
FirstOrEmpty(rows) ==
    IF rows = <<>> THEN [code |-> 200, body |-> <<>>]
    ELSE [code |-> 200, body |-> Serialize(rows[1])]

\* line 47: db.first_or_404(stmt), and lines 48-49 on the row it returns
FirstOr404(rows) ==
    IF rows = <<>> THEN NotFound
    ELSE [code |-> 200, body |-> Serialize(rows[1])]

\* line 159: the rows the statement of api_hadith selects
HadithStmt(table, urn) ==
    SelectSeq(table, LAMBDA h : h.arabicURN = urn \/ h.englishURN = urn)

\* lines 103-105: the rows the statement of api_collection_hadith selects
CollectionHadithStmt(table, path) ==
    SelectSeq(table, LAMBDA h : /\ h.collection = path.collection_name
                                /\ h.hadithNumber = path.hadithNumber)

\* lines 227-231: the rows api_hadiths_random selects, before ORDER BY rand()
RandomStmt(table) ==
    SelectSeq(table, LAMBDA h : h.collection = "riyadussalihin")

\* rows with row i moved to the front
Front(rows, i) ==
    <<rows[i]>> \o SubSeq(rows, 1, i - 1) \o SubSeq(rows, i + 1, Len(rows))

\* lines 45-49: the decorated function on the rows its statement returned
SingleResource(rows) ==
    /\ results' = rows
    /\ queries' = 1
    /\ resp' = FirstOr404(rows)
    /\ pc' = "done"

\* GET /v1/hadiths/<int:urn>
GetHadith ==
    /\ pc = "idle"
    /\ \E urn \in {1, 2, 3, 5, 9, 10, 99} :
        /\ Start([route |-> "hadith", path |-> [urn |-> urn], args |-> NoArgs])
        /\ SingleResource(HadithStmt(store, urn))

\* GET /v1/collections/<collection_name>/hadiths/<hadithNumber>
GetCollectionHadith ==
    /\ pc = "idle"
    /\ \E c \in Collections, n \in {"1", "2", "3"} :
        LET path == [collection_name |-> c, hadithNumber |-> n]
        IN  /\ Start([route |-> "collection_hadith", path |-> path,
                      args |-> NoArgs])
            /\ SingleResource(CollectionHadithStmt(store, path))

\* GET /v1/hadiths/random: ORDER BY rand() puts any selected row first
GetRandomHadith ==
    /\ pc = "idle"
    /\ Start([route |-> "hadiths_random", path |-> <<>>, args |-> NoArgs])
    /\ LET rows == RandomStmt(store)
       IN  IF rows = <<>> THEN SingleResource(rows)
           ELSE \E i \in 1..Len(rows) : SingleResource(Front(rows, i))

-----------------------------------------------------------------------------

\* the response is sent; nothing of the request outlives it
Finish ==
    /\ pc = "done"
    /\ pc' = "idle"
    /\ req' = Idle
    /\ NoLocals
    /\ results' = <<>>
    /\ queries' = 0
    /\ resp' = NoResp
    /\ UNCHANGED store

Init ==
    /\ store \in Tables
    /\ pc = "idle"
    /\ req = Idle
    /\ parts = <<>>
    /\ urns = <<>>
    /\ invalid = <<>>
    /\ seen = {}
    /\ idx = 0
    /\ by_eng = <<>>
    /\ by_ar = <<>>
    /\ data = <<>>
    /\ missing = <<>>
    /\ results = <<>>
    /\ queries = 0
    /\ resp = NoResp

Next ==
    \/ UrnsRequest
    \/ CheckOnce
    \/ CheckRequired
    \/ ParseToken
    \/ CheckParsed
    \/ QueryUrns
    \/ CollectUrn
    \/ RespondUrns
    \/ ListHadiths
    \/ ListBookHadiths
    \/ GetHadith
    \/ GetCollectionHadith
    \/ GetRandomHadith
    \/ Finish

Spec == Init /\ [][Next]_vars

-----------------------------------------------------------------------------
(* Properties: the bulk URN resolver *)

Elems(q) == {q[i] : i \in 1..Len(q)}

UrnsDone == req.route = "hadiths_by_urns" /\ pc = "done"

UrnsAccepted == UrnsDone /\ resp.code = 200

\* the parameter was given exactly once
GivenOnce == Len(req.args.urns) = 1

\* the non-empty trimmed tokens of value v, in input order
TokensOf(v) ==
    LET fields == Split(v)
    IN  SelectSeq([i \in 1..Len(fields) |-> Strip(fields[i])],
                  LAMBDA t : t # <<>>)

\* the tokens of the value given (when it was given once)
ValueTokens == TokensOf(req.args.urns[1])

\* the tokens among toks that int() rejects, in input order
OffendingOf(toks) == SelectSeq(toks, LAMBDA t : ~IntOk(t))

\* the integers the tokens toks stand for
IntSet(toks) == {IntVal(toks[i]) : i \in 1..Len(toks)}

\* position of the first token among toks that stands for u
FirstSeen(toks, u) ==
    LET at == {i \in 1..Len(toks) : IntVal(toks[i]) = u}
    IN  CHOOSE i \in at : \A j \in at : i <= j

\* some stored hadith has u as its English or as its Arabic URN
Stored(u) ==
    \E k \in 1..Len(store) :
        store[k].englishURN = u \/ store[k].arabicURN = u

\* C1: for an accepted request the requested identifiers are the parsed
\* integers without duplicates in first-seen order, 'missing' keeps that order,
\* and the items of 'data' are items for the identifiers that are not missing,
\* in that order.
C1_FirstSeenOrder ==
    UrnsAccepted =>
        LET toks  == ValueTokens
            miss  == resp.body.missing
            items  == resp.body.data
            found == SelectSeq(urns, LAMBDA u : u \notin Elems(miss))
        IN  /\ Elems(urns) = IntSet(toks)
            /\ \A i, j \in 1..Len(urns) : i < j => urns[i] # urns[j]
            /\ \A i \in 1..(Len(urns) - 1) :
                  FirstSeen(toks, urns[i]) < FirstSeen(toks, urns[i + 1])
            /\ Elems(miss) \subseteq Elems(urns)
            /\ \A i \in 1..(Len(miss) - 1) :
                  FirstSeen(toks, miss[i]) < FirstSeen(toks, miss[i + 1])
            /\ Len(items) = Len(found)
            /\ \A i \in 1..Len(items) :
                  found[i] \in {items[i].urn.en, items[i].urn.ar}

\* an accepted request with a repeated identifier, whose identifiers are not
\* in ascending order, and with two items found
C1_Witness ==
    /\ UrnsAccepted
    /\ Len(parts) > Len(urns)
    /\ Len(urns) >= 2
    /\ urns[1] > urns[2]
    /\ Len(resp.body.data) >= 2

\* C2: for an accepted request every requested identifier is in exactly one
\* of 'data' and 'missing': in 'data' (as the serialization of a stored hadith
\* with that URN) iff some stored hadith has it as English or Arabic URN;
\* count = len(data), so count + len(missing) = number of identifiers.
C2_DataOrMissing ==
    UrnsAccepted =>
        LET found == SelectSeq(urns, Stored)
            items  == resp.body.data
        IN  /\ resp.body.missing = SelectSeq(urns, LAMBDA u : ~Stored(u))
            /\ Len(items) = Len(found)
            /\ \A i \in 1..Len(items) :
                  \E k \in 1..Len(store) :
                      /\ found[i] \in {store[k].englishURN, store[k].arabicURN}
                      /\ items[i] = Serialize(store[k])
            /\ resp.body.count = Len(items)
            /\ resp.body.count + Len(resp.body.missing) = Len(urns)

\* an accepted request with a missing identifier and one found only through
\* the Arabic URN
C2_Witness ==
    /\ UrnsAccepted
    /\ resp.body.missing # <<>>
    /\ \E u \in Elems(urns) :
          /\ \E k \in 1..Len(store) : store[k].arabicURN = u
          /\ \A k \in 1..Len(store) : store[k].englishURN # u
    /\ resp.body.count < Len(urns)

\* the text of an error body's details
Details == resp.body.error.details

\* C3: when the parameter is given once and some non-empty trimmed token is
\* no integer, the request ends in 400, its details list every offending
\* token in input order, and the body holds no 'data' or 'missing'.
C3_InvalidTokens ==
    (UrnsDone /\ GivenOnce) =>
        LET bad == OffendingOf(ValueTokens)
        IN  bad # <<>> =>
               /\ resp.code = 400
               /\ DOMAIN resp.body = {"error"}
               /\ resp.body.error.code = 400
               /\ Details.prefix = "Invalid URN(s): "
               /\ Details.text = Join(bad, <<",", " ">>)

\* a rejected request with two offending tokens and a valid one
C3_Witness ==
    /\ UrnsDone
    /\ GivenOnce
    /\ LET toks == ValueTokens
       IN  /\ Len(OffendingOf(toks)) >= 2
           /\ Len(toks) > Len(OffendingOf(toks))
    /\ resp.code = 400

\* C4: a request that repeats the parameter ends in 400; an accepted request
\* gave it exactly once, with a value that has a non-empty token.
C4_ExactlyOnce ==
    UrnsDone =>
        /\ Len(req.args.urns) > 1 => resp.code = 400
        /\ resp.code = 200 =>
              /\ GivenOnce
              /\ Strip(req.args.urns[1]) # <<>>
              /\ LET fields == Split(req.args.urns[1])
                 IN  \E i \in 1..Len(fields) : Strip(fields[i]) # <<>>
        /\ resp.code \in {200, 400}

\* a rejected request that repeats the parameter, each value an integer
C4_Witness ==
    /\ UrnsDone
    /\ Len(req.args.urns) = 2
    /\ IntOk(req.args.urns[1])
    /\ IntOk(req.args.urns[2])
    /\ resp.code = 400

\* C5: a request given once whose tokens are all integers (at least one)
\* ends in 400 iff it names more than 100 distinct identifiers, and in 200
\* otherwise.
C5_MaxDistinct ==
    (UrnsDone /\ GivenOnce) =>
        LET toks == ValueTokens
        IN  (toks # <<>> /\ OffendingOf(toks) = <<>>) =>
               /\ resp.code = 400 <=> Cardinality(IntSet(toks)) > 100
               /\ resp.code = 200 <=> Cardinality(IntSet(toks)) <= 100

\* a rejected request of 101 distinct valid identifiers
C5_Witness ==
    /\ UrnsDone
    /\ GivenOnce
    /\ resp.code = 400
    /\ LET toks == ValueTokens
       IN  /\ OffendingOf(toks) = <<>>
           /\ Cardinality(IntSet(toks)) = 101

\* the check that rejects the request, "none" when it passes them all
FirstFailure ==
    IF ~GivenOnce THEN "once"
    ELSE LET toks == ValueTokens
         IN  IF toks = <<>> THEN "required"
             ELSE IF OffendingOf(toks) # <<>> THEN "invalid"
             ELSE IF Cardinality(IntSet(toks)) > 100 THEN "max"
             ELSE "none"

\* the check a 400 response reports
Reported ==
    IF Details.prefix = OnceMessage THEN "once"
    ELSE IF Details.prefix = RequiredMessage THEN "required"
    ELSE IF Details.prefix = "Invalid URN(s): " THEN "invalid"
    ELSE IF Details.prefix = "Too many URNs (max " THEN "max"
    ELSE "other"

\* C10: no statement reaches the store before validation has passed: a
\* request that ends in 400 sent none, an accepted one sent exactly one, and
\* the 400 names the first check that fails in the order repeated / absent or
\* empty / invalid token / more than 100 identifiers.
C10_ValidateThenQuery ==
    req.route = "hadiths_by_urns" =>
        /\ pc \in {"once", "required", "parse", "query"} => queries = 0
        /\ pc = "collect" => queries = 1
        /\ (pc = "done" /\ resp.code = 400) =>
              /\ queries = 0
              /\ Reported = FirstFailure
        /\ (pc = "done" /\ resp.code = 200) => queries = 1
        /\ queries > 0 => FirstFailure = "none"
        /\ pc = "done" => resp.code \in {200, 400}

\* a request with an invalid token and more than 100 identifiers, rejected
\* for the token without a statement sent
C10_Witness ==
    /\ UrnsDone
    /\ resp.code = 400
    /\ Reported = "invalid"
    /\ invalid # <<>>
    /\ Len(urns) > 100
    /\ queries = 0

-----------------------------------------------------------------------------
(* Properties: the paginated and the singular routes *)

Paginated == req.route \in {"hadiths", "collection_book_hadiths"}

Singular == req.route \in {"hadith", "collection_hadith", "hadiths_random"}

\* positions of the stored rows the paginated route's query matches
\* (on /v1/hadiths: when chapterId, if given, is a number)
PageMatches ==
    IF req.route = "hadiths"
    THEN {k \in 1..Len(store) : HadithsWhere(store[k], req.args)}
    ELSE {k \in 1..Len(store) :
             /\ store[k].collection = req.path.collection_name
             /\ store[k].bookNumber = req.path.bookNumber}

\* the ordered result of the paginated route's query
PageRows ==
    IF req.route = "hadiths" THEN HadithsStmt(store, req.args)
    ELSE BookHadithsStmt(store, req.path)

\* page and limit are integers, page >= 1 and limit >= 1
ValidPaging ==
    /\ IntArgOk(req.args, "limit")
    /\ IntArgOk(req.args, "page")
    /\ IntArg(req.args, "limit", 50) >= 1
    /\ IntArg(req.args, "page", 1) >= 1

\* C6: on a paginated route with valid page and limit (and a query that could
\* be built) the response is a page or, past the last row, a 404; a page has
\* at most 'limit' items, its limit is min(requested, 100) with default 50,
\* its items are the window of the ordered result at offset (page-1)*limit,
\* and total counts all matching rows.
C6_Pagination ==
    (Paginated /\ pc = "done" /\ ValidPaging
        /\ ~(req.route = "hadiths" /\ HadithsRaises(req.args))) =>
        LET asked == IntArg(req.args, "limit", 50)
            page  == IntArg(req.args, "page", 1)
            eff   == IF asked > 100 THEN 100 ELSE asked
            total == Cardinality(PageMatches)
            off   == (page - 1) * eff
        IN  IF page > 1 /\ off >= total
            THEN resp.code = 404
            ELSE /\ resp.code = 200
                 /\ LET rows == PageRows
                        items == resp.body.data
                    IN  /\ Len(items) <= asked
                        /\ resp.body.limit = eff
                        /\ Len(items) = Min(eff, total - off)
                        /\ \A i \in 1..Len(items) :
                              items[i] = Serialize(rows[off + i])
                        /\ resp.body.total = total

\* a page of a result of more than 100 rows, asked with limit 101
C6_Witness ==
    /\ req.route = "hadiths"
    /\ pc = "done"
    /\ resp.code = 200
    /\ IntArgOk(req.args, "limit")
    /\ IntArg(req.args, "limit", 50) = 101
    /\ Len(resp.body.data) = 100
    /\ resp.body.total > 100

\* positions of the stored rows the singular route's query matches
SingleMatches ==
    {k \in 1..Len(store) :
        IF req.route = "hadith"
        THEN store[k].englishURN = req.path.urn \/ store[k].arabicURN = req.path.urn
        ELSE IF req.route = "collection_hadith"
        THEN /\ store[k].collection = req.path.collection_name
             /\ store[k].hadithNumber = req.path.hadithNumber
        ELSE store[k].collection = "riyadussalihin"}

\* C7: on a singular route a query that matches no row ends in a 404 error
\* body, never in a 200; a query that matches ends in 200 with the
\* serialization of the first row returned, a matching row (the first in the
\* table where the statement fixes no order of its own).
C7_FirstOr404 ==
    (Singular /\ pc = "done") =>
        LET m == SingleMatches
        IN  /\ m = {} => /\ resp.code = 404
                         /\ DOMAIN resp.body = {"error"}
                         /\ resp.body.error.code = 404
            /\ m # {} => /\ resp.code = 200
                         /\ results # <<>>
                         /\ resp.body = Serialize(results[1])
                         /\ \E k \in m : results[1] = store[k]
                         /\ req.route # "hadiths_random" =>
                               results[1] = store[CHOOSE k \in m :
                                                     \A j \in m : k <= j]

\* a singular lookup that matched nothing
C7_Witness ==
    /\ Singular
    /\ pc = "done"
    /\ SingleMatches = {}
    /\ resp.code = 404

\* C8: a chapterId that float() rejects ends in 400, and no rejected
\* chapterId, limit or page ends in an unhandled fault (500).
C8_ParseFailureIs400 ==
    (req.route = "hadiths" /\ pc = "done") =>
        /\ HadithsRaises(req.args) => resp.code = 400
        /\ (HadithsRaises(req.args) \/ ~IntArgOk(req.args, "limit")
               \/ ~IntArgOk(req.args, "page")) => resp.code # 500

FilterKeys == {"collection", "bookNumber", "chapterId", "hadithNumber"}

\* the request's arguments without key
Without(args, key) == [args EXCEPT ![key] = <<>>]

\* row h has the value given for key
Equals(h, args, key) ==
    IF key = "collection" THEN h.collection = args.collection[1]
    ELSE IF key = "bookNumber" THEN h.bookNumber = args.bookNumber[1]
    ELSE IF key = "hadithNumber" THEN h.hadithNumber = args.hadithNumber[1]
    ELSE h.babID = FloatVal(args.chapterId[1])

\* key is given with a non-empty value
Supplied(args, key) ==
    /\ args[key] # <<>>
    /\ args[key][1] # (IF key = "chapterId" THEN <<>> ELSE "")

\* C9: on /v1/hadiths (chapterId, if given, a number) the rows selected are
\* exactly the stored hadiths that equal every supplied non-empty parameter,
\* dropping a parameter never loses a row, and the rows are in ascending
\* English URN.
C9_FilterConjunction ==
    (req.route = "hadiths" /\ pc = "done" /\ ~HadithsRaises(req.args)) =>
        LET rows == HadithsStmt(store, req.args)
            want == {k \in 1..Len(store) :
                        \A key \in FilterKeys :
                            Supplied(req.args, key)
                                => Equals(store[k], req.args, key)}
        IN  /\ Elems(rows) = {store[k] : k \in want}
            /\ Len(rows) = Cardinality(want)
            /\ \A i \in 1..(Len(rows) - 1) :
                  rows[i].englishURN <= rows[i + 1].englishURN
            /\ \A key \in FilterKeys :
                  Supplied(req.args, key) =>
                      Elems(rows) \subseteq
                          Elems(HadithsStmt(store, Without(req.args, key)))
            /\ (resp.code = 200 /\ Len(resp.body.data) > 0) =>
                  resp.body.data[1] = Serialize(rows[
                      (IntArg(req.args, "page", 1) - 1) * resp.body.limit + 1])

\* a listing with two parameters supplied and one given empty, that selects
\* rows, fewer than without one of the parameters, from a table not stored in
\* URN order
C9_Witness ==
    /\ req.route = "hadiths"
    /\ pc = "done"
    /\ resp.code = 200
    /\ Supplied(req.args, "collection")
    /\ Supplied(req.args, "chapterId")
    /\ req.args.bookNumber = <<>>
    /\ Len(resp.body.data) >= 2
    /\ Len(HadithsStmt(store, Without(req.args, "chapterId")))
          > Len(HadithsStmt(store, req.args))

=============================================================================
